---- MODULE Spec2Model ----
(***************************************************************************)
(* A model of the particle field of script.js (Particle, ParticleSystem),   *)
(* of the DOMContentLoaded handler that constructs it, and of the music,   *)
(* love tree, fireworks and celebration controllers with their timers.     *)
(*                                                                         *)
(* Numbers.  Lengths are fixed-point, in units of 1/UnitsPerPixel px.      *)
(* Math.random() is a draw k/RandomDen with k in 0..RandomDen-1, so that   *)
(* every quantity reset() computes is a whole number of units.  Opacities  *)
(* are in millionths (OpacityOne is opacity 1).  Math.sqrt is the integer  *)
(* square root of the squared distance in units (rounded down).            *)
(*                                                                         *)
(* Every handler (DOMContentLoaded, resize, animation frame) runs to       *)
(* completion: JavaScript is single-threaded, so one action is one         *)
(* handler.  The variable calls records, in order, the calls the most      *)
(* recent handler made on the particles and on the 2-D context.            *)
(*                                                                         *)
(* Time.  Every setTimeout delay that guards controller state (500, 1000,  *)
(* 1500, 2000, 4000, 8000, 15000 ms) is a multiple of TickMs; a timer is a *)
(* record with the ticks left, time passes one tick at a time while no     *)
(* timer is due, and due timers run in the order they were registered.     *)
(* Timers that only add or drop decoration elements (sparkles, confetti,   *)
(* rockets, hearts, the banner, the flash) are recorded in calls when they *)
(* are scheduled and are not kept in the timer list.                       *)
(***************************************************************************)
EXTENDS Integers, Sequences, FiniteSets

\* ------------------------------------------------------------------------
\* Bounds and resolution

\* new ParticleSystem('particleCanvas', 60): the count, bounded here.
particleCount == 3

\* Fixed-point resolution: 0.25 px (the speed bound of reset) is 2 units.
UnitsPerPixel == 8

\* Math.random() returns k/RandomDen.
RandomDen == 4

\* Opacity 1.0 in fixed point.
OpacityOne == 1000000

\* const maxDistance = 120 (pixels).
maxDistance == 120

\* The six Math.random() results of one reset() call, in the order of the
\* calls: x, y, size, speedX, speedY, opacity.
Draws ==
    { <<3, 3, 0, 3, 3, 0>>,    \* lower right: moving right and down, slowly
      <<0, 3, 3, 0, 0, 3>> }   \* left edge, low: moving left and up, fast

\* window.innerWidth x window.innerHeight, in pixels.
Viewports == { <<2, 2>>, <<1, 1>> }

\* Inputs of the specification of the connection pass: a large surface,
\* particles at rest (speed draws 2) on a grid of quarters of the surface.
ConnDraws == { <<rx, ry, 0, 2, 2, 0>> : rx \in {0, 1, 3}, ry \in {0, 1, 3} }

ConnViewports == { <<160, 160>>, <<480, 160>> }

\* The viewport and the draws of the specifications of the controllers.
UIViewports == { <<2, 2>> }

UIDraws == { <<1, 1, 0, 2, 2, 0>> }

\* Clicks on the tree button and on the ultimate button, together.
MaxClicks == 2

\* Keys pressed.
MaxKeys == 10

\* The length of one tick of the timer model, in ms.
TickMs == 500

\* this.maxTrees = 3
maxTrees == 3

\* const konamiSequence = [...]
konamiSequence ==
    << "ArrowUp", "ArrowUp", "ArrowDown", "ArrowDown", "ArrowLeft",
       "ArrowRight", "ArrowLeft", "ArrowRight", "b", "a" >>

\* The objects the DOMContentLoaded handler constructs, in its order.
Components ==
    << "particleSystem", "musicController", "themeController",
       "floatingHearts", "loveTreeCreator", "imageCarousel",
       "fireworksController", "ultimateCelebration", "interactiveEffects",
       "performanceMonitor", "keydownListener" >>

VARIABLES
    innerWidth,      \* window.innerWidth (px)
    innerHeight,     \* window.innerHeight (px)
    hasCanvas,       \* the document holds an element with id particleCanvas
    canvas,          \* [width, height] of that element (px)
    page,            \* "loading", "ready", or "failed" (the handler threw)
    constructed,     \* the components the DOMContentLoaded handler built
    resizeListener,  \* window 'resize' listener of the particle system
    particles,       \* ParticleSystem.particles
    rafPending,      \* callbacks requested with requestAnimationFrame
    calls,           \* the calls of the most recent handler, in order
    lastEvent,       \* the most recent handler: "none", "load", "resize", ...
    timers,          \* pending setTimeout callbacks, in registration order
    isGrowing,       \* LoveTreeCreator.isGrowing
    activeTrees,     \* LoveTreeCreator.activeTrees (tree elements, by number)
    treeButton,      \* the tree button has the class 'active'
    inDocument,      \* the tree elements that are children of document.body
    growOut,         \* the tree elements with the class 'grow-out'
    treesCreated,    \* the tree elements created so far
    fireworksActive,   \* FireworksController.isActive
    celebrationActive, \* UltimateCelebration.isActive
    ultimateButton,  \* the ultimate button has the class 'active'
    konamiCode,      \* the keys the keydown listener remembers
    isPlaying,       \* MusicController.isPlaying
    musicPlaying,    \* state.musicPlaying
    musicButton,     \* the music button has the class 'active'
    audio,           \* the audio element: "paused", "starting", "playing"
    clicks,          \* clicks on the tree and ultimate buttons so far
    keys             \* keys pressed so far

\* The state of the controllers.
ui == << timers, isGrowing, activeTrees, treeButton, inDocument, growOut,
         treesCreated, fireworksActive, celebrationActive, ultimateButton,
         konamiCode, isPlaying, musicPlaying, musicButton, audio, clicks,
         keys >>

vars == << innerWidth, innerHeight, hasCanvas, canvas, page, constructed,
           resizeListener, particles, rafPending, calls, lastEvent, ui >>

\* ------------------------------------------------------------------------
\* Arithmetic

Units(px) == px * UnitsPerPixel

\* The largest r in lo..hi with r * r <= n, by bisection.
RECURSIVE SqrtIter(_, _, _)
SqrtIter(n, lo, hi) ==
    IF lo >= hi THEN lo
    ELSE LET mid == (lo + hi + 1) \div 2
         IN  IF mid * mid <= n THEN SqrtIter(n, mid, hi)
                               ELSE SqrtIter(n, lo, mid - 1)

Abs(n) == IF n < 0 THEN -n ELSE n

\* ------------------------------------------------------------------------
\* Particle

\* Particle.reset(): six draws r, against the canvas as it is now.
reset(cv, r) ==
    [ x       |-> (r[1] * Units(cv.width)) \div RandomDen,
      y       |-> (r[2] * Units(cv.height)) \div RandomDen,
      size    |-> (r[3] * 3 * UnitsPerPixel) \div RandomDen + UnitsPerPixel,
      speedX  |-> (r[4] * UnitsPerPixel) \div (2 * RandomDen)
                      - UnitsPerPixel \div 4,
      speedY  |-> (r[5] * UnitsPerPixel) \div (2 * RandomDen)
                      - UnitsPerPixel \div 4,
      opacity |-> (r[6] * (OpacityOne \div 2)) \div RandomDen
                      + OpacityOne \div 5 ]

\* Mutant of wrap: the second if (below 0) is missing.
wrapNoLowerEdge(c, dim) == IF c > dim THEN 0 ELSE c

\* Mutant of wrap: the coordinate is clamped to the edge it crossed.
wrapClamp(c, dim) == IF c > dim THEN dim ELSE IF c < 0 THEN 0 ELSE c

\* One axis of Particle.update(): the two ifs, in the order of the code.
wrap(c, dim) ==
    LET c1 == IF c > dim THEN 0 ELSE c
    IN  IF c1 < 0 THEN dim ELSE c1

\* Mutant of update: a particle that leaves the surface on x turns around.
updateBounce(p, cv) ==
    [p EXCEPT !.x = wrap(p.x + p.speedX, Units(cv.width)),
              !.y = wrap(p.y + p.speedY, Units(cv.height)),
              !.speedX = IF p.x + p.speedX > Units(cv.width) \/ p.x + p.speedX < 0
                         THEN -p.speedX ELSE p.speedX]

\* Particle.update(): the particle reads this.canvas.width/height when called.
update(p, cv) ==
    [p EXCEPT !.x = wrap(p.x + p.speedX, Units(cv.width)),
              !.y = wrap(p.y + p.speedY, Units(cv.height))]

\* ------------------------------------------------------------------------
\* Calls on the particles and on the context, as recorded in calls

Call(op, i, j, x, y, x2, y2, r, alpha) ==
    [op |-> op, i |-> i, j |-> j, x |-> x, y |-> y, x2 |-> x2, y2 |-> y2,
     r |-> r, alpha |-> alpha]

\* ctx.clearRect(0, 0, canvas.width, canvas.height)
clearRect(cv) ==
    Call("clearRect", 0, 0, 0, 0, Units(cv.width), Units(cv.height), 0, 0)

\* particle.update(), from (x, y) to (x2, y2)
updateCall(i, p, q) == Call("update", i, 0, p.x, p.y, q.x, q.y, 0, 0)

\* Particle.draw(ctx): a disc of radius size at (x, y), fill opacity alpha
draw(i, p) == Call("draw", i, 0, p.x, p.y, 0, 0, p.size, p.opacity)

\* moveTo(particles[i]), lineTo(particles[j]), stroke() with opacity alpha
stroke(i, j, p, q, alpha) == Call("stroke", i, j, p.x, p.y, q.x, q.y, 0, alpha)

requestAnimationFrame == Call("requestAnimationFrame", 0, 0, 0, 0, 0, 0, 0, 0)

\* ------------------------------------------------------------------------
\* ParticleSystem.  An object this is [canvas, particles].

\* Mutant of resizeCanvas: the particle list is emptied on every resize.
resizeCanvasClear(this, w, h) ==
    [this EXCEPT !.canvas = [width |-> w, height |-> h], !.particles = << >>]

\* Mutant of resizeCanvas: only the width follows the window.
resizeCanvasWidthOnly(this, w, h) ==
    [this EXCEPT !.canvas = [width |-> w, height |-> this.canvas.height]]

\* Mutant of resizeCanvas: the particles are pulled back into the new bounds.
resizeCanvasClamp(this, w, h) ==
    [this EXCEPT
        !.canvas = [width |-> w, height |-> h],
        !.particles =
            [i \in 1..Len(@) |->
                [@[i] EXCEPT
                    !.x = IF @ > w * UnitsPerPixel THEN w * UnitsPerPixel ELSE @,
                    !.y = IF @ > h * UnitsPerPixel THEN h * UnitsPerPixel ELSE @]]]

\* ParticleSystem.resizeCanvas(): w, h are window.innerWidth/innerHeight.
resizeCanvas(this, w, h) ==
    [this EXCEPT !.canvas = [width |-> w, height |-> h]]

\* Math.sqrt(dx * dx + dy * dy), rounded down to a whole unit (the root lies
\* between 0 and |dx| + |dy|).
distance(p, q) ==
    LET dx == p.x - q.x
        dy == p.y - q.y
    IN  SqrtIter(dx * dx + dy * dy, 0, Abs(dx) + Abs(dy))

\* Mutant of lineOpacity: the "1 -" is missing, the line brightens with d.
lineOpacityRising(d) ==
    (d * (OpacityOne \div 5)) \div Units(maxDistance)

\* (1 - distance / maxDistance) * 0.2
lineOpacity(d) ==
    ((Units(maxDistance) - d) * (OpacityOne \div 5)) \div Units(maxDistance)

\* The body of the inner loop of drawConnections for one (i, j).
connect(ps, i, j) ==
    LET d == distance(ps[i], ps[j])
    IN  IF d < Units(maxDistance)
        THEN << stroke(i, j, ps[i], ps[j], lineOpacity(d)) >>
        ELSE << >>

\* for (let j = ...; j < particles.length; j++), from index j on.
RECURSIVE innerLoop(_, _, _)
innerLoop(ps, i, j) ==
    IF j > Len(ps) THEN << >>
    ELSE connect(ps, i, j) \o innerLoop(ps, i, j + 1)

\* Mutant of outerLoop: the inner loop starts at the first particle, not at
\* i + 1.
RECURSIVE outerLoopAllPairs(_, _)
outerLoopAllPairs(ps, i) ==
    IF i > Len(ps) THEN << >>
    ELSE innerLoop(ps, i, 1) \o outerLoopAllPairs(ps, i + 1)

\* for (let i = ...; i < particles.length; i++), from index i on;
\* the inner loop starts at j = i + 1.
RECURSIVE outerLoop(_, _)
outerLoop(ps, i) ==
    IF i > Len(ps) THEN << >>
    ELSE innerLoop(ps, i, i + 1) \o outerLoop(ps, i + 1)

\* ParticleSystem.drawConnections(): the strokes, in order.
drawConnections(ps) == outerLoop(ps, 1)

\* Mutant of updateAndDraw: the disc is drawn before the particle moves.
drawAndUpdate(i, p, cv) ==
    LET q == update(p, cv)
    IN  [particle |-> q, calls |-> << draw(i, p), updateCall(i, p, q) >>]

\* The callback of particles.forEach in animate: update, then draw.
updateAndDraw(i, p, cv) ==
    LET q == update(p, cv)
    IN  [particle |-> q, calls |-> << updateCall(i, p, q), draw(i, q) >>]

\* particles.forEach(...): the calls of particles i.., in order.
RECURSIVE forEachCalls(_, _, _)
forEachCalls(ps, cv, i) ==
    IF i > Len(ps) THEN << >>
    ELSE updateAndDraw(i, ps[i], cv).calls \o forEachCalls(ps, cv, i + 1)

\* Mutant of animate: the frame does not request the next one.
animateOnce(this) ==
    LET cv    == this.canvas
        ps    == this.particles
        after == [i \in 1..Len(ps) |-> updateAndDraw(i, ps[i], cv).particle]
    IN  [this  |-> [this EXCEPT !.particles = after],
         calls |-> << clearRect(cv) >> \o forEachCalls(ps, cv, 1)
                       \o drawConnections(after)]

\* ParticleSystem.animate(): the object after the frame, and its calls.
animate(this) ==
    LET cv    == this.canvas
        ps    == this.particles
        after == [i \in 1..Len(ps) |-> updateAndDraw(i, ps[i], cv).particle]
    IN  [this  |-> [this EXCEPT !.particles = after],
         calls |-> << clearRect(cv) >> \o forEachCalls(ps, cv, 1)
                       \o drawConnections(after)
                       \o << requestAnimationFrame >>]

\* The number of requestAnimationFrame calls in a sequence of calls.
Requested(cs) ==
    Cardinality({k \in 1..Len(cs) : cs[k].op = "requestAnimationFrame"})

\* ParticleSystem.init(), after resizeCanvas: the particles are created from
\* the draws r (one tuple per particle) and the first frame is rendered.
init(this, r) ==
    animate([this EXCEPT
                 !.particles =
                     @ \o [i \in 1..particleCount |-> reset(this.canvas, r[i])]])

\* ------------------------------------------------------------------------
\* Timers, and the calls of the controllers as recorded in calls

Ticks(ms) == ms \div TickMs

\* setTimeout(fn, ms); tree is the tree element the callback closes over
\* (0: none).
Timer(fn, tree, ms) == [fn |-> fn, tree |-> tree, left |-> Ticks(ms)]

\* A controller method entered, or a decoration scheduled: i is an index, a
\* count or a tree; j is 1 when the guard flag of the method (isGrowing,
\* isActive) was set on entry.
Did(op, i, j) == Call(op, i, j, 0, 0, 0, 0, 0, 0)

Flag(b) == IF b THEN 1 ELSE 0

\* The objects the handlers of the controllers work on; a handler starts
\* with an empty record of calls.
Heap ==
    [ timers |-> timers, isGrowing |-> isGrowing, activeTrees |-> activeTrees,
      treeButton |-> treeButton, inDocument |-> inDocument,
      growOut |-> growOut, treesCreated |-> treesCreated,
      fireworksActive |-> fireworksActive,
      celebrationActive |-> celebrationActive,
      ultimateButton |-> ultimateButton, konamiCode |-> konamiCode,
      isPlaying |-> isPlaying, musicPlaying |-> musicPlaying,
      musicButton |-> musicButton, audio |-> audio, calls |-> << >> ]

\* ------------------------------------------------------------------------
\* MusicController

\* play(): audio.play() returns a promise that settles later; its catch
\* handler only logs.  The three flags are set at once.
play(h) ==
    [h EXCEPT !.audio = "starting",
              !.isPlaying = TRUE, !.musicButton = TRUE, !.musicPlaying = TRUE,
              !.calls = Append(@, Did("play", 0, 0))]

\* pause()
pause(h) ==
    [h EXCEPT !.audio = "paused",
              !.isPlaying = FALSE, !.musicButton = FALSE,
              !.musicPlaying = FALSE,
              !.calls = Append(@, Did("pause", 0, 0))]

\* toggle()
toggle(h) == IF h.isPlaying THEN pause(h) ELSE play(h)

\* The promise of audio.play() is fulfilled: playback has started.
playFulfilled(h) == [h EXCEPT !.audio = "playing"]

\* The promise of audio.play() is rejected: the audio stays paused and the
\* catch handler logs the error and the notification.
playRejected(h) ==
    [h EXCEPT !.audio = "paused",
              !.calls = @ \o << Did("console.log", 0, 0),
                                Did("showNotification", 0, 0) >>]

\* ------------------------------------------------------------------------
\* LoveTreeCreator

\* removeTree(tree): the class now, the removal 1500 ms later.
removeTree(h, tree) ==
    [h EXCEPT !.growOut = @ \cup {tree},
              !.timers = Append(@, Timer("growOutEnd", tree, 1500))]

\* removeOldestTree()
removeOldestTree(h) ==
    IF Len(h.activeTrees) > 0 THEN removeTree(h, h.activeTrees[1]) ELSE h

\* createTree(): a new element, appended to the body and to activeTrees;
\* the timers of its sparkles (1500 ms), of its removal (15000 ms) and of
\* the end of the growing phase (2000 ms).
createTree(h) ==
    LET tree == h.treesCreated + 1
    IN  [h EXCEPT
            !.calls = @ \o << Did("createTree", tree, Flag(h.isGrowing)),
                              Did("addSparkles", tree, 0) >>,
            !.isGrowing = TRUE,
            !.treeButton = TRUE,
            !.treesCreated = tree,
            !.inDocument = @ \cup {tree},
            !.activeTrees = Append(@, tree),
            !.timers = @ \o << Timer("removeTree", tree, 15000),
                               Timer("growingEnd", 0, 2000) >>]

\* handleClick()
handleClick(h) ==
    IF h.isGrowing THEN h
    ELSE createTree(IF Len(h.activeTrees) >= maxTrees
                    THEN removeOldestTree(h) ELSE h)

\* The 2000 ms callback of createTree.
growingEnd(h) ==
    [h EXCEPT !.isGrowing = FALSE,
              !.treeButton = IF Len(h.activeTrees) = 0 THEN FALSE ELSE @]

\* activeTrees without the element at indexOf(tree), if there is one.
splice(trees, tree) ==
    IF \E k \in 1..Len(trees) : trees[k] = tree
    THEN LET index == CHOOSE k \in 1..Len(trees) :
                          trees[k] = tree /\ \A m \in 1..(k - 1) : trees[m] # tree
         IN  SubSeq(trees, 1, index - 1) \o SubSeq(trees, index + 1, Len(trees))
    ELSE trees

\* Mutant of growOutEnd: the element leaves the document but stays listed.
growOutEndNoSplice(h, tree) ==
    [h EXCEPT !.inDocument = @ \ {tree},
              !.treeButton = IF Len(h.activeTrees) = 0 THEN FALSE ELSE @]

\* The 1500 ms callback of removeTree.
growOutEnd(h, tree) ==
    LET rest == splice(h.activeTrees, tree)
    IN  [h EXCEPT !.inDocument = @ \ {tree},
                  !.activeTrees = rest,
                  !.treeButton = IF Len(rest) = 0 THEN FALSE ELSE @]

\* ------------------------------------------------------------------------
\* FireworksController and UltimateCelebration, both on the ultimate button

\* n rockets scheduled 400 ms apart (createFirework builds and drops
\* decoration elements only).
Rockets(n) == [i \in 1..n |-> Did("createFirework", i - 1, 0)]

\* FireworksController.launch()
launch(h) ==
    IF h.fireworksActive
    THEN [h EXCEPT !.calls = Append(@, Did("launch", 0, 1))]
    ELSE [h EXCEPT
            !.calls = @ \o << Did("launch", 0, 0) >> \o Rockets(8),
            !.fireworksActive = TRUE,
            !.ultimateButton = TRUE,
            !.timers = Append(@, Timer("launchEnd", 0, 4000))]

\* The 4000 ms callback of launch.
launchEnd(h) ==
    [h EXCEPT !.fireworksActive = FALSE, !.ultimateButton = FALSE]

\* UltimateCelebration.spawnTrees(): three createTree calls, 500 ms apart.
spawnTrees(h) ==
    [h EXCEPT !.timers = @ \o [i \in 1..3 |-> Timer("spawnTree", 0, (i - 1) * 500)]]

\* UltimateCelebration.activate(): flash, confetti, the show of 15 rockets,
\* three trees, hearts, banner, shake, and the reset 8000 ms later.
activate(h) ==
    IF h.celebrationActive
    THEN [h EXCEPT !.calls = Append(@, Did("activate", 0, 1))]
    ELSE LET on == [h EXCEPT
                       !.calls = @ \o << Did("activate", 0, 0),
                                         Did("createScreenFlash", 0, 0),
                                         Did("launchConfetti", 200, 0) >>
                                   \o Rockets(15)
                                   \o << Did("spawnTrees", 3, 0),
                                         Did("heartBurst", 100, 0),
                                         Did("showCelebrationMessage", 0, 0),
                                         Did("triggerAllEffects", 0, 0) >>,
                       !.celebrationActive = TRUE,
                       !.ultimateButton = TRUE]
         IN  [spawnTrees(on) EXCEPT
                 !.timers = Append(@, Timer("activateEnd", 0, 8000))]

\* The 8000 ms callback of activate.
activateEnd(h) ==
    [h EXCEPT !.celebrationActive = FALSE, !.ultimateButton = FALSE]

\* konamiCode.push(key); konamiCode = konamiCode.slice(-10)
remember(code, key) ==
    LET all == Append(code, key)
    IN  IF Len(all) > 10 THEN SubSeq(all, Len(all) - 9, Len(all)) ELSE all

\* The keydown listener: the last ten keys against the sequence.
keydown(h, key) ==
    LET code == remember(h.konamiCode, key)
        heard == [h EXCEPT !.konamiCode = code]
    IN  IF code = konamiSequence THEN activate(heard) ELSE heard

\* The callback of timer t.
callback(h, t) ==
    CASE t.fn = "spawnTree"   -> createTree(h)
      [] t.fn = "removeTree"  -> removeTree(h, t.tree)
      [] t.fn = "growOutEnd"  -> growOutEnd(h, t.tree)
      [] t.fn = "growingEnd"  -> growingEnd(h)
      [] t.fn = "launchEnd"   -> launchEnd(h)
      [] t.fn = "activateEnd" -> activateEnd(h)

\* The sequence s without its k-th element.
Without(s, k) == SubSeq(s, 1, k - 1) \o SubSeq(s, k + 1, Len(s))

\* ------------------------------------------------------------------------
\* The page

Init0(V) ==
    /\ \E v \in V : innerWidth = v[1] /\ innerHeight = v[2]
    /\ hasCanvas \in BOOLEAN
    /\ canvas = [width |-> 300, height |-> 150]   \* the HTML default size
    /\ page = "loading"
    /\ constructed = {}
    /\ resizeListener = FALSE
    /\ particles = << >>
    /\ rafPending = 0
    /\ calls = << >>
    /\ lastEvent = "none"
    /\ timers = << >>
    /\ isGrowing = FALSE
    /\ activeTrees = << >>
    /\ treeButton = FALSE
    /\ inDocument = {}
    /\ growOut = {}
    /\ treesCreated = 0
    /\ fireworksActive = FALSE
    /\ celebrationActive = FALSE
    /\ ultimateButton = FALSE
    /\ konamiCode = << >>
    /\ isPlaying = FALSE
    /\ musicPlaying = FALSE
    /\ musicButton = FALSE
    /\ audio = "paused"
    /\ clicks = 0
    /\ keys = 0

\* new ParticleSystem(...) when getElementById returns null: this.canvas is
\* null and this.canvas.getContext throws a TypeError, which leaves the
\* DOMContentLoaded handler at its first statement.
LoadWithoutCanvas ==
    /\ page = "loading"
    /\ ~hasCanvas
    /\ page' = "failed"
    /\ constructed' = {}
    /\ calls' = << >>
    /\ lastEvent' = "load"
    /\ UNCHANGED << innerWidth, innerHeight, hasCanvas, canvas, resizeListener,
                    particles, rafPending, ui >>

\* The DOMContentLoaded handler with the canvas in the document.
LoadWithCanvas(D) ==
    /\ page = "loading"
    /\ hasCanvas
    /\ \E r \in [1..particleCount -> D] :
          LET sized == resizeCanvas([canvas |-> canvas, particles |-> << >>],
                                    innerWidth, innerHeight)
              a     == init(sized, r)
          IN  /\ canvas' = a.this.canvas
              /\ particles' = a.this.particles
              /\ calls' = a.calls
              /\ rafPending' = Requested(a.calls)
    /\ resizeListener' = TRUE
    /\ page' = "ready"
    /\ constructed' = {Components[k] : k \in 1..Len(Components)}
    /\ lastEvent' = "load"
    \* the constructors of the controllers assign the values of Init0
    /\ UNCHANGED << innerWidth, innerHeight, hasCanvas, ui >>

\* document.addEventListener('DOMContentLoaded', ...)
DOMContentLoaded(D) == LoadWithoutCanvas \/ LoadWithCanvas(D)

\* The window is resized to v; the listener of init, if registered, runs.
Resize(V) ==
    \E v \in V :
       /\ v # << innerWidth, innerHeight >>
       /\ innerWidth' = v[1]
       /\ innerHeight' = v[2]
       /\ IF resizeListener
          THEN LET t == resizeCanvas([canvas |-> canvas, particles |-> particles],
                                     v[1], v[2])
               IN  canvas' = t.canvas /\ particles' = t.particles
          ELSE UNCHANGED << canvas, particles >>
       /\ calls' = << >>
       /\ lastEvent' = "resize"
       /\ UNCHANGED << hasCanvas, page, constructed, resizeListener, rafPending,
                       ui >>

\* The browser runs one requested animation frame callback: animate().
AnimationFrame ==
    /\ rafPending > 0
    /\ LET a == animate([canvas |-> canvas, particles |-> particles])
       IN  /\ canvas' = a.this.canvas
           /\ particles' = a.this.particles
           /\ calls' = a.calls
           /\ rafPending' = rafPending - 1 + Requested(a.calls)
    /\ lastEvent' = "frame"
    /\ UNCHANGED << innerWidth, innerHeight, hasCanvas, page, constructed,
                    resizeListener, ui >>

Init == Init0(Viewports)

Next == DOMContentLoaded(Draws) \/ Resize(Viewports) \/ AnimationFrame

Spec == Init /\ [][Next]_vars

\* A step in which a requested frame callback runs: under Next these are the
\* AnimationFrame steps, the only ones that set lastEvent to "frame".
FrameRuns == rafPending > 0 /\ lastEvent' = "frame"

\* The browser runs a requested frame callback before the next repaint: a
\* callback that stays requested after some other event is run in the end.
FairSpec == Spec /\ WF_lastEvent(FrameRuns)

\* The connection pass on a large surface, particles at rest.
InitConn == Init0(ConnViewports)

NextConn == DOMContentLoaded(ConnDraws) \/ Resize(ConnViewports) \/ AnimationFrame

SpecConn == InitConn /\ [][NextConn]_vars

\* ------------------------------------------------------------------------
\* The events of the controllers

\* The handler of an event ends with the objects as in h.
Becomes(h, event) ==
    /\ timers' = h.timers
    /\ isGrowing' = h.isGrowing
    /\ activeTrees' = h.activeTrees
    /\ treeButton' = h.treeButton
    /\ inDocument' = h.inDocument
    /\ growOut' = h.growOut
    /\ treesCreated' = h.treesCreated
    /\ fireworksActive' = h.fireworksActive
    /\ celebrationActive' = h.celebrationActive
    /\ ultimateButton' = h.ultimateButton
    /\ konamiCode' = h.konamiCode
    /\ isPlaying' = h.isPlaying
    /\ musicPlaying' = h.musicPlaying
    /\ musicButton' = h.musicButton
    /\ audio' = h.audio
    /\ calls' = h.calls
    /\ lastEvent' = event
    /\ UNCHANGED << innerWidth, innerHeight, hasCanvas, canvas, page,
                    constructed, resizeListener, particles, rafPending >>

\* A click on the music button.
MusicClick ==
    /\ page = "ready"
    /\ Becomes(toggle(Heap), "musicClick")
    /\ UNCHANGED << clicks, keys >>

\* The promise of the pending audio.play() is fulfilled.
PlayFulfilled ==
    /\ audio = "starting"
    /\ Becomes(playFulfilled(Heap), "playFulfilled")
    /\ UNCHANGED << clicks, keys >>

\* The promise of the pending audio.play() is rejected.
PlayRejected ==
    /\ audio = "starting"
    /\ Becomes(playRejected(Heap), "playRejected")
    /\ UNCHANGED << clicks, keys >>

\* A click on the tree button.
TreeClick ==
    /\ page = "ready"
    /\ clicks < MaxClicks
    /\ Becomes(handleClick(Heap), "treeClick")
    /\ clicks' = clicks + 1
    /\ UNCHANGED keys

\* A click on the ultimate button: the listener of FireworksController was
\* added first, the listener of UltimateCelebration second.
UltimateClick ==
    /\ page = "ready"
    /\ clicks < MaxClicks
    /\ Becomes(activate(launch(Heap)), "ultimateClick")
    /\ clicks' = clicks + 1
    /\ UNCHANGED keys

\* A key is pressed: here the next key of the sequence.
Keydown ==
    /\ page = "ready"
    /\ keys < MaxKeys
    /\ Becomes(keydown(Heap, konamiSequence[(keys % 10) + 1]), "keydown")
    /\ keys' = keys + 1
    /\ UNCHANGED clicks

\* The first due timer, if any.
Due == {k \in 1..Len(timers) :
           timers[k].left = 0 /\ \A m \in 1..(k - 1) : timers[m].left > 0}

\* The oldest due timer runs.
TimerFires ==
    \E k \in Due :
        /\ Becomes(callback([Heap EXCEPT !.timers = Without(timers, k)],
                            timers[k]),
                   timers[k].fn)
        /\ UNCHANGED << clicks, keys >>

\* One tick passes while timers are pending and none is due.
Tick ==
    /\ timers # << >>
    /\ \A k \in 1..Len(timers) : timers[k].left > 0
    /\ timers' = [k \in 1..Len(timers) |-> [timers[k] EXCEPT !.left = @ - 1]]
    /\ calls' = << >>
    /\ lastEvent' = "tick"
    /\ UNCHANGED << innerWidth, innerHeight, hasCanvas, canvas, page,
                    constructed, resizeListener, particles, rafPending,
                    isGrowing, activeTrees, treeButton, inDocument, growOut,
                    treesCreated, fireworksActive, celebrationActive,
                    ultimateButton, konamiCode, isPlaying, musicPlaying,
                    musicButton, audio, clicks, keys >>

\* The music controller, on a page that loads and is resized.
NextMusic ==
    \/ DOMContentLoaded(Draws)
    \/ Resize(Viewports)
    \/ MusicClick
    \/ PlayFulfilled
    \/ PlayRejected

SpecMusic == Init /\ [][NextMusic]_vars

\* The tree, fireworks and celebration controllers and their timers.
InitUI == Init0(UIViewports)

NextUI ==
    \/ DOMContentLoaded(UIDraws)
    \/ TreeClick
    \/ UltimateClick
    \/ Keydown
    \/ TimerFires
    \/ Tick

SpecUI == InitUI /\ [][NextUI]_vars

\* The same without the keyboard: celebrations start from the button.
NextTrees ==
    \/ DOMContentLoaded(UIDraws)
    \/ TreeClick
    \/ UltimateClick
    \/ TimerFires
    \/ Tick

\* A due timer runs, and time passes: the browser's event loop.
FairSpecTrees ==
    InitUI /\ [][NextTrees]_vars /\ WF_vars(TimerFires) /\ WF_vars(Tick)

\* ------------------------------------------------------------------------
\* Properties

Width == Units(canvas.width)
Height == Units(canvas.height)
Running == page = "ready"
Indices == 1..Len(particles)
CallsOf(op) == {k \in 1..Len(calls) : calls[k].op = op}

\* The wrap rule as stated: past the dimension to 0, below 0 to the dimension.
Wrapped(c, dim) == IF c > dim THEN 0 ELSE IF c < 0 THEN dim ELSE c

\* C1 (as stated): once the field runs, every particle lies in
\* [0, width) x [0, height) of the current surface, in every state.
C1_StrictlyInside ==
    Running =>
        \A i \in Indices :
            /\ 0 <= particles[i].x /\ particles[i].x < Width
            /\ 0 <= particles[i].y /\ particles[i].y < Height

\* C1 (amended): in a state that follows an Advance step with no resize since,
\* every particle lies in [0, width] x [0, height], both ends included.
C1_InsideAfterAdvance ==
    (Running /\ lastEvent \in {"load", "frame"}) =>
        \A i \in Indices :
            /\ 0 <= particles[i].x /\ particles[i].x <= Width
            /\ 0 <= particles[i].y /\ particles[i].y <= Height

\* C1 witness: after a frame a particle that fell below 0 sits on x = width.
C1_OnTheEdge ==
    /\ Running /\ lastEvent = "frame"
    /\ \E k \in CallsOf("update") :
          /\ calls[k].x + particles[calls[k].i].speedX < 0
          /\ particles[calls[k].i].x = Width

\* C2: one Advance step moves each axis by its speed and wraps it alone:
\* past the dimension to 0, below 0 to the dimension, else unchanged.
C2_WrapRule ==
    \A k \in CallsOf("update") :
        LET c == calls[k]
            p == particles[c.i]
        IN  /\ c.x2 = Wrapped(c.x + p.speedX, Width)
            /\ c.y2 = Wrapped(c.y + p.speedY, Height)
            /\ p.x = c.x2 /\ p.y = c.y2

\* C2 witness: one particle passes the width and restarts at 0; another falls
\* below 0 on x and lands on the width while its y just moves by its speed.
C2_WrapsOneAxis ==
    /\ \E k \in CallsOf("update") :
          /\ calls[k].x + particles[calls[k].i].speedX > Width
          /\ calls[k].x2 = 0
    /\ \E k \in CallsOf("update") :
          LET c == calls[k]
              p == particles[c.i]
          IN  /\ c.x + p.speedX < 0 /\ c.x2 = Width
              /\ p.speedY # 0 /\ c.y2 = c.y + p.speedY

\* C3: the field holds exactly particleCount particles in every state after
\* its initialization.
C3_CountConstant == Running => Len(particles) = particleCount

\* C3 witness: the field after a resize event and after a frame.
C3_AfterResize ==
    /\ Running /\ lastEvent = "resize" /\ Len(particles) = particleCount
    /\ \E i \in Indices : particles[i].x > Width

\* C4: every Advance step wraps against the viewport in force when it runs
\* (window.innerWidth x window.innerHeight as of the latest resize event).
C4_WrapsAgainstNewBounds ==
    Running =>
        \A k \in CallsOf("update") :
            LET c == calls[k]
                p == particles[c.i]
            IN  /\ c.x2 = Wrapped(c.x + p.speedX, Units(innerWidth))
                /\ c.y2 = Wrapped(c.y + p.speedY, Units(innerHeight))

\* C4 witness: a frame after the viewport shrank: a particle left beyond the
\* new width, which the old width still held, restarts at 0.
C4_WrappedAfterShrink ==
    /\ Running /\ lastEvent = "frame"
    /\ \E k \in CallsOf("update"), v \in Viewports :
          /\ calls[k].x > Units(innerWidth)
          /\ calls[k].x + particles[calls[k].i].speedX <= Units(v[1])
          /\ calls[k].x2 = 0

\* The squared distance of particles i and j, in units.
Dist2(i, j) ==
    (particles[i].x - particles[j].x) * (particles[i].x - particles[j].x)
        + (particles[i].y - particles[j].y) * (particles[i].y - particles[j].y)

Near(i, j) == Dist2(i, j) < Units(maxDistance) * Units(maxDistance)

\* The strokes of the latest connection pass between particles i and j.
StrokesOf(i, j) ==
    {k \in CallsOf("stroke") : {calls[k].i, calls[k].j} = {i, j}}

\* C5: a connection pass strokes one line for each unordered pair of
\* particles closer than maxDistance, none for any other pair, none from a
\* particle to itself.
C5_OneLinePerNearPair ==
    calls # << >> =>
        /\ \A i \in Indices, j \in Indices :
              i < j => Cardinality(StrokesOf(i, j)) = IF Near(i, j) THEN 1 ELSE 0
        /\ \A k \in CallsOf("stroke") : calls[k].i # calls[k].j

\* C5 witness: a pass that strokes a near pair once and leaves out a pair
\* at exactly maxDistance.
C5_NearDrawnFarNot ==
    /\ lastEvent = "frame"
    /\ \E i \in Indices, j \in Indices :
          i # j /\ Near(i, j) /\ Cardinality(StrokesOf(i, j)) = 1
    /\ \E i \in Indices, j \in Indices :
          /\ Dist2(i, j) = Units(maxDistance) * Units(maxDistance)
          /\ StrokesOf(i, j) = {}

\* A pass over particles that are pairwise at maxDistance or more: no line.
C5_AllFarNoLine ==
    /\ lastEvent = "frame"
    /\ \A i \in Indices, j \in Indices : i # j => ~Near(i, j)
    /\ CallsOf("stroke") = {}

\* The distance of the two ends of stroke k, in units.
StrokeLength(k) == distance(particles[calls[k].i], particles[calls[k].j])

\* C6: a line of length d < maxDistance has opacity (1 - d/maxDistance) * 0.2:
\* in (0, 0.2], 0.2 at d = 0, strictly smaller for a longer line.
C6_OpacityFalloff ==
    \A k \in CallsOf("stroke") :
        LET d == StrokeLength(k)
        IN  /\ d < Units(maxDistance)
            /\ calls[k].alpha > 0
            /\ 5 * calls[k].alpha <= OpacityOne
            /\ d = 0 => 5 * calls[k].alpha = OpacityOne
            /\ 5 * Units(maxDistance) * calls[k].alpha
                   <= (Units(maxDistance) - d) * OpacityOne
            /\ 5 * Units(maxDistance) * (calls[k].alpha + 1)
                   > (Units(maxDistance) - d) * OpacityOne
            /\ \A m \in CallsOf("stroke") :
                  StrokeLength(m) > d => calls[m].alpha < calls[k].alpha

\* C6 witness: a line of 40 px has opacity 0.1333, beside a shorter or longer
\* line of the same pass.
C6_FortyPixels ==
    \E k \in CallsOf("stroke"), m \in CallsOf("stroke") :
        /\ StrokeLength(k) = Units(40)
        /\ calls[k].alpha = 133333
        /\ StrokeLength(m) # StrokeLength(k)

\* C7: when the document has no particle canvas, the handler ends without an
\* error, the field never starts, and every other component is constructed.
C7_SilentNoOp ==
    (page # "loading" /\ ~hasCanvas) =>
        /\ page = "ready"
        /\ rafPending = 0 /\ particles = << >>
        /\ \A k \in 2..Len(Components) : Components[k] \in constructed

\* C8: once the field runs, a frame callback is pending in every state, each
\* frame ends by requesting the next, and a frame always runs again.
C8_LoopNeverStops ==
    /\ [](Running => rafPending = 1)
    /\ []((Running /\ calls # << >>) =>
             /\ calls[Len(calls)].op = "requestAnimationFrame"
             /\ Cardinality(CallsOf("requestAnimationFrame")) = 1)
    /\ [][Running => Running']_vars
    /\ (Running /\ lastEvent # "frame") ~> (lastEvent = "frame")

\* C8 witness: a frame has run and the next one is pending.
C8_FramePending == Running /\ lastEvent = "frame" /\ rafPending = 1

\* C9 (as stated): in a frame every particle is advanced before Render begins
\* (before the surface is cleared, before any disc or line is drawn).
C9_AdvanceBeforeRender ==
    \A u \in CallsOf("update"),
       k \in CallsOf("clearRect") \cup CallsOf("draw") \cup CallsOf("stroke") :
        u < k

\* C9 (amended): a frame clears the surface, then advances and at once draws
\* each particle in turn, once each, then makes the connection pass, then
\* requests the next frame; every disc is drawn at its particle's advanced
\* position and every line between advanced positions.
C9_FrameOrder ==
    calls # << >> =>
        /\ Len(calls) >= 2 * Len(particles) + 2
        /\ calls[1].op = "clearRect"
        /\ \A i \in Indices :
              LET u == calls[2 * i]
                  d == calls[2 * i + 1]
              IN  /\ u.op = "update" /\ u.i = i
                  /\ u.x2 = particles[i].x /\ u.y2 = particles[i].y
                  /\ d.op = "draw" /\ d.i = i
                  /\ d.x = particles[i].x /\ d.y = particles[i].y
        /\ \A k \in (2 * Len(particles) + 2)..(Len(calls) - 1) :
              /\ calls[k].op = "stroke"
              /\ calls[k].x = particles[calls[k].i].x
              /\ calls[k].y = particles[calls[k].i].y
              /\ calls[k].x2 = particles[calls[k].j].x
              /\ calls[k].y2 = particles[calls[k].j].y
        /\ calls[Len(calls)].op = "requestAnimationFrame"

\* C9 witness: a frame that moved a particle, drew it and stroked a line.
C9_MovedAndDrawn ==
    /\ lastEvent = "frame"
    /\ CallsOf("stroke") # {}
    /\ \E k \in CallsOf("update") :
          calls[k].x # calls[k].x2 /\ calls[k + 1].op = "draw"

\* C10: a resize event sets the surface to the new viewport and changes
\* nothing else of the field: the particles keep position, speed, size and
\* opacity, and the pending frame stays pending.
C10_ResizeKeepsParticles ==
    [][(lastEvent' = "resize" /\ Running) =>
          /\ particles' = particles
          /\ canvas' = [width |-> innerWidth', height |-> innerHeight']
          /\ UNCHANGED << rafPending, resizeListener, page, constructed >>]_vars

\* C10 witness: after a resize a particle lies beyond the new bounds.
C10_OutsideAfterResize ==
    /\ Running /\ lastEvent = "resize"
    /\ \E i \in Indices : particles[i].x > Width \/ particles[i].y > Height

\* The largest speed of reset(): 0.25 px per frame on each axis.
MaxSpeed == UnitsPerPixel \div 4

\* C11: a step changes at most the position of a particle: speed (each
\* component within [-0.25, 0.25] px), size and opacity keep the values drawn
\* at creation, and no frame, resize or other event adds, drops or re-seeds
\* a particle once the field runs.
C11_OnlyPositionChanges ==
    /\ [](\A i \in Indices :
             /\ -MaxSpeed <= particles[i].speedX /\ particles[i].speedX <= MaxSpeed
             /\ -MaxSpeed <= particles[i].speedY /\ particles[i].speedY <= MaxSpeed)
    /\ [][Running =>
             /\ Len(particles') = Len(particles)
             /\ \A i \in Indices :
                   /\ particles'[i].speedX = particles[i].speedX
                   /\ particles'[i].speedY = particles[i].speedY
                   /\ particles'[i].size = particles[i].size
                   /\ particles'[i].opacity = particles[i].opacity]_vars

\* C11 witness: a frame wrapped a particle from below 0 to the width; it
\* still moves left at the full 0.25 px per frame, with the size and the
\* opacity its draws gave it.
C11_WrappedSameSpeed ==
    /\ Running /\ lastEvent = "frame"
    /\ \E k \in CallsOf("update") :
          LET p == particles[calls[k].i]
          IN  /\ calls[k].x + p.speedX < 0 /\ calls[k].x2 = Width
              /\ p.speedX = -MaxSpeed
              /\ \E d \in Draws :
                    p.size = reset(canvas, d).size
                        /\ p.opacity = reset(canvas, d).opacity

\* The elements of a sequence.
Range(s) == {s[k] : k \in 1..Len(s)}

\* The pending timers with callback fn.
Pending(fn) == {k \in 1..Len(timers) : timers[k].fn = fn}

\* C12: the number of love trees on screen (the length of activeTrees) never
\* exceeds maxTrees, whatever the order of tree clicks, celebrations and
\* timers.
C12_AtMostMaxTrees ==
    /\ Len(activeTrees) <= maxTrees
    /\ Cardinality(inDocument) <= maxTrees

\* The pending timers that lead to the removal of tree: its 15 s timer, or
\* the 1.5 s timer of a removeTree.
Leaving(tree) ==
    {k \in Pending("removeTree") \cup Pending("growOutEnd") :
        timers[k].tree = tree}

\* C13: every tree in the document is in activeTrees with its removal
\* pending, a tree that left never returns, and in the end (the clicks and
\* keys of a behaviour are finitely many) every tree has left: activeTrees
\* stays empty, no tree is in the document and the tree button is not
\* 'active'.
C13_EveryTreeLeaves ==
    /\ [](\A tree \in inDocument :
             tree \in Range(activeTrees) /\ Leaving(tree) # {})
    /\ [][\A tree \in inDocument' \ inDocument : tree > treesCreated]_vars
    /\ <>[](activeTrees = << >> /\ inDocument = {} /\ ~treeButton)

\* C13 witness: the oldest tree, chosen by removeOldestTree, has left the
\* document and activeTrees while its own 15 s timer is still pending.
C13_OldestLeftEarly ==
    /\ 1 \in growOut
    /\ 1 \notin inDocument /\ 1 \notin Range(activeTrees)
    /\ \E k \in Pending("removeTree") : timers[k].tree = 1
    /\ activeTrees # << >>

\* C14: createTree is never entered while isGrowing is true, and isGrowing
\* stays true for 2000 ms after every createTree (while the 2000 ms timer of
\* a createTree is not yet due).
C14_OneTreeGrowing ==
    /\ \A k \in CallsOf("createTree") : calls[k].j = 0
    /\ (\E k \in Pending("growingEnd") : timers[k].left > 0) => isGrowing

\* C15: the ultimate button has the class 'active' in every state where
\* UltimateCelebration.isActive is true.
C15_ButtonShowsCelebration == celebrationActive => ultimateButton

\* The decorations and trees a handler started.
Effects ==
    {k \in 1..Len(calls) :
        calls[k].op \in {"createScreenFlash", "launchConfetti", "createFirework",
                         "spawnTrees", "heartBurst", "showCelebrationMessage",
                         "triggerAllEffects"}}

\* C16: an activation (click or key sequence) that finds the celebration
\* active starts no effect; one that finds it inactive starts the full
\* sequence with exactly 15 rockets; the 8000 ms reset clears isActive.
C16_NoEffectsWhileActive ==
    /\ \A k \in CallsOf("activate") :
          IF calls[k].j = 1
          THEN Effects = {}
          ELSE /\ Cardinality(CallsOf("createFirework")) = 15
               /\ Cardinality(CallsOf("launchConfetti")) = 1
               /\ Cardinality(CallsOf("spawnTrees")) = 1
               /\ Cardinality(CallsOf("heartBurst")) = 1
               /\ Cardinality(CallsOf("showCelebrationMessage")) = 1
    /\ lastEvent = "activateEnd" => ~celebrationActive

\* C17: isPlaying, state.musicPlaying and the 'active' class of the music
\* button agree, and they are true only while the audio is starting or
\* playing: after a rejected play() the controller is not in the playing
\* state.
C17_PlayingMeansAudible ==
    /\ isPlaying = musicPlaying
    /\ isPlaying = musicButton
    /\ isPlaying => audio \in {"starting", "playing"}

====
